---- MODULE Spec2Model ----
(***************************************************************************)
(* Model of the React -> HTML sync tool (sync.js): ReactExtractor,         *)
(* HTMLUpdater and SyncOrchestrator.                                       *)
(*                                                                         *)
(* Texts are TLC strings; a character is a string of length 1.  The        *)
(* regular expressions of the source are translated one by one into        *)
(* matchers: a matcher takes a text and a start index and gives the index  *)
(* just after the match, or 0 when the expression does not match there.    *)
(* The syntax tree and the text that @babel/generator prints for a node    *)
(* come from libraries outside the repository: a source file is modelled   *)
(* by its nodes in traversal order, each carrying its printed text.        *)
(***************************************************************************)
EXTENDS Integers, Sequences, FiniteSets, TLC

(***************************************************************************)
(* Characters and character classes                                        *)
(***************************************************************************)
LowerLetters == "abcdefghijklmnopqrstuvwxyz"
UpperLetters == "ABCDEFGHIJKLMNOPQRSTUVWXYZ"
DigitChars == "0123456789"

At(s, i) == IF i >= 1 /\ i <= Len(s) THEN SubSeq(s, i, i) ELSE ""

CharsOf(s) == {SubSeq(s, k, k) : k \in 1..Len(s)}

\* \w of a JavaScript regular expression
WordChar == CharsOf(LowerLetters) \cup CharsOf(UpperLetters) \cup CharsOf(DigitChars) \cup {"_"}

\* \s of a JavaScript regular expression (the members that occur in the texts)
SpaceChar == {" ", "\n", "\t"}

\* String.prototype.toLowerCase / toUpperCase on one character
LowerChar(c) ==
    IF c \in CharsOf(UpperLetters)
    THEN At(LowerLetters, CHOOSE k \in 1..26 : At(UpperLetters, k) = c)
    ELSE c

\* the text s has the literal lit at index i
HasAt(s, i, lit) ==
    /\ i >= 1
    /\ i + Len(lit) - 1 <= Len(s)
    /\ SubSeq(s, i, i + Len(lit) - 1) = lit

\* the same, ignoring case (flag i)
HasAtCI(s, i, lit) ==
    /\ i >= 1
    /\ i + Len(lit) - 1 <= Len(s)
    /\ \A k \in 1..Len(lit) : LowerChar(At(s, i + k - 1)) = LowerChar(At(lit, k))

\* greedy run of characters of class C from i: index just after the run
SkipIn(s, i, C) ==
    IF i > Len(s) THEN i
    ELSE CHOOSE j \in i..(Len(s) + 1) :
            /\ (j = Len(s) + 1 \/ At(s, j) \notin C)
            /\ \A k \in i..(j - 1) : At(s, k) \in C

\* String.prototype.indexOf(lit, i): first index >= i where lit occurs, or 0
IndexFrom(s, i, lit) ==
    IF \E j \in i..Len(s) : HasAt(s, j, lit)
    THEN CHOOSE j \in i..Len(s) : HasAt(s, j, lit) /\ \A k \in i..(j - 1) : ~HasAt(s, k, lit)
    ELSE 0

\* String.prototype.lastIndexOf(lit) on the first i characters: last index, or 0
LastIndexFrom(s, i, lit) ==
    IF \E j \in 1..i : HasAt(s, j, lit)
    THEN CHOOSE j \in 1..i : HasAt(s, j, lit) /\ \A k \in (j + 1)..i : ~HasAt(s, k, lit)
    ELSE 0

\* String.prototype.indexOf(lit) where lastIndexOf(lit) is meant
FirstIndexOf(s, lit) == IndexFrom(s, 1, lit)

LastIndexOf(s, lit) == LastIndexFrom(s, Len(s), lit)

\* String.prototype.trim
Trim(s) ==
    LET To(a, e) == SubSeq(s, a, e)
    IN  To(SkipIn(s, 1, SpaceChar),
           CHOOSE j \in 0..Len(s) :
               /\ (j = 0 \/ At(s, j) \notin SpaceChar)
               /\ \A k \in (j + 1)..Len(s) : At(s, k) \in SpaceChar)

\* the replace of /^\s+|\s+$/g by '': the leading run, then the trailing run
StripEnds(s) ==
    LET DropTrailing(t) ==
            SubSeq(t, 1, CHOOSE j \in 0..Len(t) :
                             /\ (j = 0 \/ At(t, j) \notin SpaceChar)
                             /\ \A k \in (j + 1)..Len(t) : At(t, k) \in SpaceChar)
    IN  DropTrailing(SubSeq(s, SkipIn(s, 1, SpaceChar), Len(s)))

\* ' '.repeat(n), for n up to 4096
Blank8 == "        "
Blank4096 ==
    LET b64 == Blank8 \o Blank8 \o Blank8 \o Blank8 \o Blank8 \o Blank8 \o Blank8 \o Blank8
        Times8(b) == b \o b \o b \o b \o b \o b \o b \o b
    IN  Times8(Times8(b64))
Spaces(n) == SubSeq(Blank4096, 1, n)

(***************************************************************************)
(* String.prototype.replace with a global regular expression: ends[i] is   *)
(* the matcher's result at start index i, reps[i] the replacement of the   *)
(* match that starts at i.  Matches are taken leftmost first and do not    *)
(* overlap.                                                                *)
(***************************************************************************)
\* the indexes where the expression matches
StartsOf(s, ends) == {i \in 1..Len(s) : ends[i] # 0}

\* the first match start >= i, or 0
NextStart(S, i) ==
    IF \E j \in S : j >= i
    THEN CHOOSE j \in S : j >= i /\ \A k \in S : k >= i => j <= k
    ELSE 0

RECURSIVE SpliceOver(_, _, _, _, _)
SpliceOver(s, S, ends, reps, i) ==
    LET From(j) ==
            IF j = 0 THEN SubSeq(s, i, Len(s))
            ELSE SubSeq(s, i, j - 1) \o reps[j] \o SpliceOver(s, S, ends, reps, ends[j])
    IN  From(NextStart(S, i))

SpliceFrom(s, ends, reps, i) == SpliceOver(s, StartsOf(s, ends), ends, reps, i)

\* String.prototype.replace with a regular expression without flag g
SpliceFirstFrom(s, ends, reps, i) ==
    LET At1(j) ==
            IF j = 0 THEN s
            ELSE SubSeq(s, 1, j - 1) \o reps[j] \o SubSeq(s, ends[j], Len(s))
    IN  At1(NextStart(StartsOf(s, ends), i))

\* String.prototype.match with flag g: the starts of all matches, in order
RECURSIVE MatchStartsOver(_, _, _)
MatchStartsOver(S, ends, i) ==
    LET From(j) == IF j = 0 THEN << >> ELSE <<j>> \o MatchStartsOver(S, ends, ends[j])
    IN  From(NextStart(S, i))

MatchStartsFrom(s, ends, i) == MatchStartsOver(StartsOf(s, ends), ends, i)

\* the index of the end of the line that holds index i (its newline, or the last index)
LineStop(s, i) ==
    LET OrLast(n) == IF n = 0 THEN Len(s) ELSE n
    IN  OrLast(IndexFrom(s, i, "\n"))

\* a lazy .*? : first k >= i on the same line where lit occurs, or 0
LazyDotTo(s, i, lit) ==
    LET SameLine(k, n) == IF k # 0 /\ (n = 0 \/ k <= n) THEN k ELSE 0
    IN  SameLine(IndexFrom(s, i, lit), IndexFrom(s, i, "\n"))

(***************************************************************************)
(* ReactExtractor.cleanReactSyntax: nine replacements in a fixed order     *)
(***************************************************************************)
QuoteChar == {"'", "\""}

\* a lazy .*? up to the first character of class C on the same line, or 0
LazyDotToIn(s, i, C) ==
    LET Stop(j) == At(s, j) \in C \cup {"\n"}
        IfIn(k) == IF k # 0 /\ At(s, k) \in C THEN k ELSE 0
    IN  IfIn(IF \E j \in i..Len(s) : Stop(j)
             THEN CHOOSE j \in i..Len(s) : Stop(j) /\ \A m \in i..(j - 1) : ~Stop(m)
             ELSE 0)

\* /import\s+.*?from\s+['"].*?['"];?\n?/g : the lazy .*? stops at the first "from"
\* on the line after which \s+['"].*?['"];?\n? matches
ImportEnd(s, i) ==
    LET AfterSemi(a) == IF At(s, a) = "\n" THEN a + 1 ELSE a
        AfterQuote(q) ==
            IF q = 0 THEN 0 ELSE AfterSemi(IF At(s, q + 1) = ";" THEN q + 2 ELSE q + 1)
        Quote(c, d) ==
            IF d = c \/ At(s, d) \notin QuoteChar THEN 0
            ELSE AfterQuote(LazyDotToIn(s, d + 1, QuoteChar))
        Tail1(j) == IF ~HasAt(s, j, "from") THEN 0 ELSE Quote(j + 4, SkipIn(s, j + 4, SpaceChar))
        Within(j, lineEnd) ==
            IF \E f \in j..lineEnd : Tail1(f) # 0
            THEN Tail1(CHOOSE f \in j..lineEnd : Tail1(f) # 0 /\ \A g \in j..(f - 1) : Tail1(g) = 0)
            ELSE 0
        Space(a, b) == IF b = a THEN 0 ELSE Within(b, LineStop(s, b))
    IN  IF ~HasAt(s, i, "import") THEN 0 ELSE Space(i + 6, SkipIn(s, i + 6, SpaceChar))

\* /set(\w+)\((.*?)\)/g : index of the "(" that ends group 1, or 0
SetterParen(s, i) ==
    LET Name(a, j) == IF j = a \/ At(s, j) # "(" THEN 0 ELSE j
    IN  IF ~HasAt(s, i, "set") THEN 0 ELSE Name(i + 3, SkipIn(s, i + 3, WordChar))

\* index just after the ")" the lazy group 2 stops at, or 0
SetterEnd(s, i) ==
    LET Close(k) == IF k = 0 THEN 0 ELSE k + 1
        Argument(j) == IF j = 0 THEN 0 ELSE Close(LazyDotTo(s, j + 1, ")"))
    IN  Argument(SetterParen(s, i))

\* (match, varName, value) => `${varName.charAt(0).toLowerCase() + varName.slice(1)} = ${value}`
SetterReplacement(s, i) ==
    LET Assignment(varName, value) ==
            LowerChar(At(varName, 1)) \o SubSeq(varName, 2, Len(varName)) \o " = " \o value
        Groups(j, e) == Assignment(SubSeq(s, i + 3, j - 1), SubSeq(s, j + 1, e - 2))
    IN  Groups(SetterParen(s, i), SetterEnd(s, i))

\* /axios\.get\((.*?)\)/g, with or without a leading "await "
AxiosEnd(s, i, prefix) ==
    LET Close(k) == IF k = 0 THEN 0 ELSE k + 1
    IN  IF ~HasAt(s, i, prefix) THEN 0 ELSE Close(LazyDotTo(s, i + Len(prefix), ")"))

\* /\n\s*\n/g : from a newline to the last newline of the whitespace run
BlankEnd(s, i) ==
    LET Last(l) == IF l > i THEN l + 1 ELSE 0
        Run(r) == Last(LastIndexFrom(s, r - 1, "\n"))
    IN  IF At(s, i) # "\n" THEN 0 ELSE Run(SkipIn(s, i + 1, SpaceChar))

\* the replace of a literal, written as a regular expression with flag g
ReplaceLit(s, lit, by) ==
    SpliceFrom(s, [i \in 1..Len(s) |-> IF HasAt(s, i, lit) THEN i + Len(lit) ELSE 0],
               [i \in 1..Len(s) |-> by], 1)

StripImports(s) ==
    SpliceFrom(s, [i \in 1..Len(s) |-> ImportEnd(s, i)], [i \in 1..Len(s) |-> ""], 1)

RewriteSetters(s) ==
    SpliceFrom(s, [i \in 1..Len(s) |-> SetterEnd(s, i)],
               [i \in 1..Len(s) |-> IF SetterEnd(s, i) = 0 THEN "" ELSE SetterReplacement(s, i)], 1)

RewriteAxios(s, prefix, head) ==
    LET Replacement(i, e) ==
            IF e = 0 THEN "" ELSE head \o SubSeq(s, i + Len(prefix), e - 2) \o ").then(res => res.json())"
    IN  SpliceFrom(s, [i \in 1..Len(s) |-> AxiosEnd(s, i, prefix)],
                   [i \in 1..Len(s) |-> Replacement(i, AxiosEnd(s, i, prefix))], 1)

CollapseBlankLines(s) ==
    SpliceFrom(s, [i \in 1..Len(s) |-> BlankEnd(s, i)], [i \in 1..Len(s) |-> "\n"], 1)

cleanReactSyntax(code) ==
    Trim(StripEnds(CollapseBlankLines(
        ReplaceLit(
            ReplaceLit(
                RewriteAxios(
                    RewriteAxios(
                        ReplaceLit(RewriteSetters(StripImports(code)),
                                   "process.env.NODE_ENV", "window.NODE_ENV || \"production\""),
                        "await axios.get(", "await fetch("),
                    "axios.get(", "fetch("),
                "fallbackData", "getFallbackData()"),
            "undefined", ""))))

(***************************************************************************)
(* The replacement text of String.prototype.replace when the replacement   *)
(* is a string: $$, $&, $' and $n / $nn are substituted (the texts of the  *)
(* model have no backquote, so the fifth form is left out).  groups is the *)
(* sequence of captured texts, post the text after the match.              *)
(***************************************************************************)
DigitOf(c) == IF c \in CharsOf(DigitChars) THEN (CHOOSE k \in 1..10 : At(DigitChars, k) = c) - 1 ELSE -1

\* the group number the "$" at index i refers to with width digits, or 0
DollarGroup(repl, i, groups, width) ==
    LET Number(d1, d2) ==
            IF d1 >= 0 /\ d2 >= 0 /\ 10 * d1 + d2 >= 1 /\ 10 * d1 + d2 <= Len(groups)
            THEN 10 * d1 + d2 ELSE 0
    IN  IF width = 2 THEN Number(DigitOf(At(repl, i + 1)), DigitOf(At(repl, i + 2)))
        ELSE Number(0, DigitOf(At(repl, i + 1)))

DollarEnd(repl, i, groups) ==
    IF At(repl, i) # "$" THEN 0
    ELSE IF At(repl, i + 1) \in {"$", "&", "'"} THEN i + 2
    ELSE IF DollarGroup(repl, i, groups, 2) # 0 THEN i + 3
    ELSE IF DollarGroup(repl, i, groups, 1) # 0 THEN i + 2
    ELSE 0

DollarText(repl, i, matched, groups, post) ==
    IF At(repl, i + 1) = "$" THEN "$"
    ELSE IF At(repl, i + 1) = "&" THEN matched
    ELSE IF At(repl, i + 1) = "'" THEN post
    ELSE IF DollarGroup(repl, i, groups, 2) # 0 THEN groups[DollarGroup(repl, i, groups, 2)]
    ELSE groups[DollarGroup(repl, i, groups, 1)]

GetSubstitution(repl, matched, groups, post) ==
    SpliceFrom(repl, [i \in 1..Len(repl) |-> DollarEnd(repl, i, groups)],
               [i \in 1..Len(repl) |->
                   IF DollarEnd(repl, i, groups) = 0 THEN ""
                   ELSE DollarText(repl, i, matched, groups, post)], 1)

(***************************************************************************)
(* HTMLUpdater                                                             *)
(***************************************************************************)
\* the split/map/join of indentCode: a line that is not blank starts at i
IndentEnd(s, i) ==
    IF (i = 1 \/ At(s, i - 1) = "\n") /\ Trim(SubSeq(s, i, LineStop(s, i))) # ""
    THEN i + 1 ELSE 0

\* HTMLUpdater.indentCode: the indent goes before every line that is not blank
indentCode(code, spaces) ==
    SpliceFrom(code, [i \in 1..Len(code) |-> IndentEnd(code, i)],
               [i \in 1..Len(code) |-> Spaces(spaces) \o At(code, i)], 1)

\* (\s*)(function\s+NAME\s*\( ... : index of the "(" of the header, or 0;
\* loose is TRUE when \s* is allowed between the name and the "("
HeaderParen(s, i, name, loose) ==
    LET Open(c) == IF At(s, c) = "(" THEN c ELSE 0
        Named(a, b) ==
            IF b = a \/ ~HasAt(s, b, name) THEN 0
            ELSE Open(IF loose THEN SkipIn(s, b + Len(name), SpaceChar) ELSE b + Len(name))
        Keyword(a) ==
            IF ~HasAt(s, a, "function") THEN 0 ELSE Named(a + 8, SkipIn(s, a + 8, SpaceChar))
    IN  Keyword(SkipIn(s, i, SpaceChar))

\* ... \([^)]*\)\s*\{ : index of the "{" that opens the body, or 0
BodyBrace(s, i, name, loose) ==
    LET Brace(e) == IF At(s, e) = "{" THEN e ELSE 0
        AfterClose(d) == IF d = 0 THEN 0 ELSE Brace(SkipIn(s, d + 1, SpaceChar))
        AfterParen(c) == IF c = 0 THEN 0 ELSE AfterClose(IndexFrom(s, c + 1, ")"))
    IN  AfterParen(HeaderParen(s, i, name, loose))

\* the three patterns of updateFunction, in their order: what follows the "{" is
\* [\s\S]*?\n\s*\} (1), [\s\S]*?\} (2) or [\s\S]*?return[^}]*\} (3)
FunctionPatternEnd(k, s, i, name) ==
    LET LineBrace(p) == At(s, p) = "\n" /\ At(s, SkipIn(s, p + 1, SpaceChar)) = "}"
        LineBraceEnd(c) ==
            IF \E p \in c..Len(s) : LineBrace(p)
            THEN SkipIn(s, (CHOOSE p \in c..Len(s) :
                                LineBrace(p) /\ \A q \in c..(p - 1) : ~LineBrace(q)) + 1,
                        SpaceChar) + 1
            ELSE 0
        Close(b) == IF b = 0 THEN 0 ELSE b + 1
        AnyBraceEnd(c) == Close(IndexFrom(s, c, "}"))
        AfterReturn(r) == IF r = 0 THEN 0 ELSE AnyBraceEnd(r + 6)
        ReturnBraceEnd(c) == AfterReturn(IndexFrom(s, c, "return"))
        Body(e) ==
            IF e = 0 THEN 0
            ELSE IF k = 1 THEN LineBraceEnd(e + 1)
            ELSE IF k = 2 THEN AnyBraceEnd(e + 1)
            ELSE ReturnBraceEnd(e + 1)
    IN  Body(BodyBrace(s, i, name, k = 1))

FunctionPatternEnds(k, s, name) == [i \in 1..Len(s) |-> FunctionPatternEnd(k, s, i, name)]

\* htmlContent.match(pattern): the matched texts (flag g: whole matches only)
FunctionMatches(k, s, name) ==
    LET Texts(ends, starts) == [m \in 1..Len(starts) |-> SubSeq(s, starts[m], ends[starts[m]] - 1)]
        Matches(ends) == Texts(ends, MatchStartsFrom(s, ends, 1))
    IN  Matches(FunctionPatternEnds(k, s, name))

\* the first pattern that matches, or 0
FirstPattern(s, name) ==
    IF StartsOf(s, FunctionPatternEnds(1, s, name)) # {} THEN 1
    ELSE IF StartsOf(s, FunctionPatternEnds(2, s, name)) # {} THEN 2
    ELSE IF StartsOf(s, FunctionPatternEnds(3, s, name)) # {} THEN 3
    ELSE 0

\* match[1] || '        '  (with flag g, match[1] is the second whole match)
MatchIndentation(match) == IF Len(match) >= 2 THEN match[2] ELSE Blank8

\* htmlContent.replace(pattern, indentation + indentedCode)
ReplaceFunction(k, s, name, repl) ==
    LET Substitution(i, e, a) ==
            GetSubstitution(repl, SubSeq(s, i, e - 1), <<SubSeq(s, i, a - 1), SubSeq(s, a, e - 1)>>,
                            SubSeq(s, e, Len(s)))
        Replace(ends) ==
            SpliceFrom(s, ends,
                       [i \in 1..Len(s) |->
                           IF ends[i] = 0 THEN ""
                           ELSE Substitution(i, ends[i], SkipIn(s, i, SpaceChar))], 1)
    IN  Replace(FunctionPatternEnds(k, s, name))

ScriptMarker == "</script>"

\* a fallback that, without a marker, appends the code to the text and counts an update
InsertOrAppend(u, functionName, cleanCode, insertPoint) ==
    LET InsertAt(p) ==
            [u EXCEPT !.html = SubSeq(u.html, 1, p - 1)
                               \o "\n        " \o indentCode(cleanCode, 8) \o "\n\n    "
                               \o SubSeq(u.html, p, Len(u.html)),
                      !.updateCount = @ + 1]
    IN  InsertAt(IF insertPoint = 0 THEN Len(u.html) + 1 ELSE insertPoint)

\* the branch of updateFunction taken when no pattern matched
InsertOrSkip(u, functionName, cleanCode, insertPoint) ==
    IF insertPoint # 0
    THEN [u EXCEPT !.html = SubSeq(u.html, 1, insertPoint - 1)
                            \o "\n        " \o indentCode(cleanCode, 8) \o "\n\n    "
                            \o SubSeq(u.html, insertPoint, Len(u.html)),
                   !.updateCount = @ + 1]
    ELSE [u EXCEPT !.warnings = Append(@, "Could not find insertion point for function: " \o functionName),
                   !.skipCount = @ + 1]

\* HTMLUpdater.updateFunction on the updater state u = [html, updateCount, skipCount, warnings]
updateFunction(u, functionName, code) ==
    LET Matched(cleanCode, k, indentation) ==
            [u EXCEPT !.html = ReplaceFunction(k, u.html, functionName,
                                               indentation \o indentCode(cleanCode, Len(indentation))),
                      !.updateCount = @ + 1]
        With(cleanCode, k) ==
            IF k # 0
            THEN Matched(cleanCode, k, MatchIndentation(FunctionMatches(k, u.html, functionName)))
            ELSE InsertOrSkip(u, functionName, cleanCode, LastIndexOf(u.html, ScriptMarker))
    IN  With(Trim(ReplaceLit(code, "undefined", "")), FirstPattern(u.html, functionName))

\* /\/\/\s*Global\s+state[\s\S]*?(?=\n\s*\/\/|\n\s*function|\n\s*document)/i :
\* index of the newline the lookahead stops at (the match ends before it), or 0
StateRegionEnd(s, i) ==
    LET StopAt(q) == HasAt(s, q, "//") \/ HasAtCI(s, q, "function") \/ HasAtCI(s, q, "document")
        Stop(p) == At(s, p) = "\n" /\ StopAt(SkipIn(s, p + 1, SpaceChar))
        Body(c) ==
            IF \E p \in c..Len(s) : Stop(p)
            THEN CHOOSE p \in c..Len(s) : Stop(p) /\ \A q \in c..(p - 1) : ~Stop(q)
            ELSE 0
        Word(a, b) == IF b = a \/ ~HasAtCI(s, b, "state") THEN 0 ELSE Body(b + 5)
        Global(a) == IF ~HasAtCI(s, a, "Global") THEN 0 ELSE Word(a + 6, SkipIn(s, a + 6, SpaceChar))
    IN  IF ~HasAt(s, i, "//") THEN 0 ELSE Global(SkipIn(s, i + 2, SpaceChar))

\* new RegExp(`let\\s+${getter}\\s*=\\s*[^;]+;`, 'g')
VarPatternEnd(s, i, getter) ==
    LET Value(b, sc) == IF sc = 0 \/ sc = b + 1 THEN 0 ELSE sc + 1
        Equals(b) == IF At(s, b) # "=" THEN 0 ELSE Value(b, IndexFrom(s, b + 1, ";"))
        Name(a, b) ==
            IF b = a \/ ~HasAt(s, b, getter) THEN 0
            ELSE Equals(SkipIn(s, b + Len(getter), SpaceChar))
    IN  IF ~HasAt(s, i, "let") THEN 0 ELSE Name(i + 3, SkipIn(s, i + 3, SpaceChar))

\* one iteration of the loop of HTMLUpdater.updateStateVariables
updateStateVariable(u, stateVar) ==
    LET ReplaceVar(ends, decl) ==
            SpliceFrom(u.html, ends,
                       [i \in 1..Len(u.html) |->
                           IF ends[i] = 0 THEN ""
                           ELSE GetSubstitution(decl, SubSeq(u.html, i, ends[i] - 1), << >>,
                                                SubSeq(u.html, ends[i], Len(u.html)))], 1)
        AppendToRegion(ends, line) ==
            SpliceFirstFrom(u.html, ends,
                            [i \in 1..Len(u.html) |->
                                IF ends[i] = 0 THEN "" ELSE SubSeq(u.html, i, ends[i] - 1) \o line], 1)
        Reconcile(varEnds, regEnds) ==
            IF StartsOf(u.html, varEnds) # {}
            THEN [u EXCEPT !.html = ReplaceVar(varEnds,
                                        "let " \o stateVar.getter.str \o " = " \o stateVar.initialValue \o ";"),
                           !.updateCount = @ + 1]
            ELSE IF StartsOf(u.html, regEnds) # {}
            THEN [u EXCEPT !.html = AppendToRegion(regEnds,
                                        "\n        let " \o stateVar.getter.str \o " = "
                                        \o stateVar.initialValue \o "; // " \o stateVar.setter.str),
                           !.updateCount = @ + 1]
            ELSE [u EXCEPT !.warnings = Append(@, "Could not update state variable: " \o stateVar.getter.str),
                           !.skipCount = @ + 1]
    IN  Reconcile([i \in 1..Len(u.html) |-> VarPatternEnd(u.html, i, stateVar.getter.str)],
                  [i \in 1..Len(u.html) |-> StateRegionEnd(u.html, i)])

\* the two loops of updateHTML / updateStateVariables from record k on
RECURSIVE updateFunctions(_, _, _)
updateFunctions(u, functions, k) ==
    IF k > Len(functions) THEN u
    ELSE updateFunctions(updateFunction(u, functions[k].name, functions[k].code), functions, k + 1)

RECURSIVE updateStateVariables(_, _, _)
updateStateVariables(u, state, k) ==
    IF k > Len(state) THEN u
    ELSE updateStateVariables(updateStateVariable(u, state[k]), state, k + 1)

\* an updateHTML that also puts the code of the effect records into the text
updateHTMLWithLogic(u, html, extractionResult) ==
    LET Effects(logic) == IF Len(logic) = 0 THEN "" ELSE logic[1].code
    IN  updateStateVariables(
            updateFunctions([u EXCEPT !.html = html \o Effects(extractionResult.logic)],
                            extractionResult.functions, 1),
            extractionResult.state, 1)

\* HTMLUpdater.updateHTML without its write: the buffer after all records
updateHTML(u, html, extractionResult) ==
    updateStateVariables(updateFunctions([u EXCEPT !.html = html], extractionResult.functions, 1),
                         extractionResult.state, 1)

(***************************************************************************)
(* The syntax tree.  A source file is [exists, valid, nodes]: nodes lists  *)
(* the nodes of the tree in the order @babel/traverse enters them; a field *)
(* that refers to a node holds its index, 0 for null/undefined.  text is   *)
(* what @babel/generator prints for the node.  A JavaScript value that is  *)
(* a string or undefined is [def, str], str being its text in a template.  *)
(***************************************************************************)
Str(x) == [def |-> TRUE, str |-> x]
Undefined == [def |-> FALSE, str |-> "undefined"]

Node(type, parent) ==
    [type |-> type, parent |-> parent, name |-> Undefined, id |-> 0, init |-> 0, callee |-> 0,
     body |-> 0, params |-> << >>, arguments |-> << >>, elements |-> << >>, text |-> "",
     boolValue |-> FALSE, numValue |-> 0, strValue |-> ""]

\* node?.field for a node index that may be 0
NameOf(nodes, n) == IF n = 0 THEN Undefined ELSE nodes[n].name

\* params.map(p => p.name || 'param')
ParamNames(nodes, params) ==
    LET OrParam(v) == IF v.def /\ v.str # "" THEN v.str ELSE "param"
    IN  [k \in 1..Len(params) |-> OrParam(NameOf(nodes, params[k]))]

\* Array.prototype.join
RECURSIVE Join(_, _)
Join(q, sep) ==
    IF Len(q) = 0 THEN ""
    ELSE IF Len(q) = 1 THEN q[1]
    ELSE q[1] \o sep \o Join(Tail(q), sep)

(***************************************************************************)
(* ReactExtractor                                                          *)
(***************************************************************************)
targetFunctions ==
    <<"organizeEmployeeData", "getEmploymentStatus", "isManager", "fetchEmployeeData", "loadData">>

\* an extractor without the allow-list
AnyFunction(name) == TRUE

isTargetFunction(name) == \E k \in 1..Len(targetFunctions) : targetFunctions[k] = name

isHookCall(nodes, n, hook) ==
    /\ n # 0
    /\ nodes[n].type = "CallExpression"
    /\ NameOf(nodes, nodes[n].callee) = Str(hook)

isUseStateCall(nodes, n) == isHookCall(nodes, n, "useState")
isUseEffectCall(nodes, n) == isHookCall(nodes, n, "useEffect")
isUseCallbackCall(nodes, n) == isHookCall(nodes, n, "useCallback")

\* Map.prototype.set on a map kept as the sequence of its entries
MapHas(m, key) == \E k \in 1..Len(m) : m[k].name = key
\* a map that keeps the entry it already holds under a key
MapSetFirst(m, entry) == IF MapHas(m, entry.name) THEN m ELSE Append(m, entry)

MapSet(m, entry) ==
    IF MapHas(m, entry.name)
    THEN [k \in 1..Len(m) |-> IF m[k].name = entry.name THEN entry ELSE m[k]]
    ELSE Append(m, entry)
MapKeys(m) == {m[k].name : k \in 1..Len(m)}

convertToVanillaJS(nodes, n) == cleanReactSyntax(nodes[n].text)

\* body.type === 'BlockStatement' ? generate(body).code : `{ return ${generate(body).code}; }`
BodyCode(nodes, b) ==
    IF nodes[b].type = "BlockStatement" THEN nodes[b].text
    ELSE "{ return " \o nodes[b].text \o "; }"

convertArrowToVanillaJS(nodes, n) ==
    LET arrowFunc == nodes[n].init
        functionName == NameOf(nodes, nodes[n].id).str
        params == Join(ParamNames(nodes, nodes[arrowFunc].params), ", ")
    IN  cleanReactSyntax("function " \o functionName \o "(" \o params \o ") "
                         \o BodyCode(nodes, nodes[arrowFunc].body))

convertCallbackToVanilla(nodes, callbackNode, functionName) ==
    LET params == Join(ParamNames(nodes, nodes[callbackNode].params), ", ") IN
    cleanReactSyntax("async function " \o functionName \o "(" \o params \o ") "
                     \o BodyCode(nodes, nodes[callbackNode].body))

convertStateToVanilla(getter, setter, initialValue) ==
    "let " \o getter.str \o " = " \o initialValue \o ";\nfunction " \o setter.str
    \o "(newValue) { " \o getter.str \o " = newValue; }"

\* an initial value that is the printed text of the initializer
PrintedInitialValue(nodes, n) == IF n = 0 THEN "null" ELSE nodes[n].text

extractInitialValue(nodes, n) ==
    IF n = 0 THEN "null"
    ELSE CASE nodes[n].type = "NullLiteral" -> "null"
           [] nodes[n].type = "BooleanLiteral" -> IF nodes[n].boolValue THEN "true" ELSE "false"
           [] nodes[n].type = "NumericLiteral" -> ToString(nodes[n].numValue)
           [] nodes[n].type = "StringLiteral" -> "\"" \o nodes[n].strValue \o "\""
           [] nodes[n].type = "ArrayExpression" -> "[]"
           [] nodes[n].type = "ObjectExpression" -> "{}"
           [] OTHER -> "null"

\* a visitor's result: how it ended ("ok", "throw", "hang") and the extractor's fields after it
Result(status, ex) == [status |-> status, ex |-> ex]

FunctionRecord(name, code, type, params) ==
    [name |-> name, code |-> code, type |-> type, params |-> params]

extractFunction(nodes, n, ex) ==
    LET functionName == NameOf(nodes, nodes[n].id) IN
    IF functionName.def /\ functionName.str # "" /\ isTargetFunction(functionName.str)
    THEN Result("ok", [ex EXCEPT !.functions =
                MapSet(@, FunctionRecord(functionName.str, convertToVanillaJS(nodes, n), "function",
                                         ParamNames(nodes, nodes[n].params)))])
    ELSE Result("ok", ex)

extractArrowFunction(nodes, n, ex) ==
    LET functionName == NameOf(nodes, nodes[n].id) IN
    IF functionName.def /\ functionName.str # "" /\ isTargetFunction(functionName.str)
    THEN Result("ok", [ex EXCEPT !.functions =
                MapSet(@, FunctionRecord(functionName.str, convertArrowToVanillaJS(nodes, n), "arrow",
                                         ParamNames(nodes, nodes[nodes[n].init].params)))])
    ELSE Result("ok", ex)

\* arguments?.[k]
ArgOf(nodes, n, k) == IF Len(nodes[n].arguments) >= k THEN nodes[n].arguments[k] ELSE 0

\* an extractState that asks for exactly one argument of the call
extractStateOneArgument(nodes, n, ex) ==
    LET stateVar == nodes[n].id IN
    IF stateVar # 0 /\ nodes[stateVar].type = "ArrayPattern" /\ Len(nodes[stateVar].elements) = 2
       /\ Len(nodes[nodes[n].init].arguments) = 1
    THEN LET getter == nodes[stateVar].elements[1]
             setter == nodes[stateVar].elements[2]
             initialValue == extractInitialValue(nodes, ArgOf(nodes, nodes[n].init, 1))
         IN  IF getter = 0 \/ setter = 0
             THEN Result("throw", ex)
             ELSE Result("ok", [ex EXCEPT !.state = Append(@,
                         [getter |-> nodes[getter].name, setter |-> nodes[setter].name,
                          initialValue |-> initialValue,
                          jsEquivalent |-> convertStateToVanilla(nodes[getter].name, nodes[setter].name,
                                                                 initialValue)])])
    ELSE Result("ok", ex)

extractState(nodes, n, ex) ==
    LET stateVar == nodes[n].id IN
    IF stateVar # 0 /\ nodes[stateVar].type = "ArrayPattern" /\ Len(nodes[stateVar].elements) = 2
    THEN LET getter == nodes[stateVar].elements[1]
             setter == nodes[stateVar].elements[2]
             initialValue == extractInitialValue(nodes, ArgOf(nodes, nodes[n].init, 1))
         IN  IF getter = 0 \/ setter = 0
             THEN Result("throw", ex)      \* TypeError: a hole in the pattern is null
             ELSE Result("ok", [ex EXCEPT !.state = Append(@,
                         [getter |-> nodes[getter].name, setter |-> nodes[setter].name,
                          initialValue |-> initialValue,
                          jsEquivalent |-> convertStateToVanilla(nodes[getter].name, nodes[setter].name,
                                                                 initialValue)])])
    ELSE Result("ok", ex)

\* elements.map(el => el.name || el.value).filter(Boolean), each kept value as its text
extractEffectDependencies(nodes, depsNode) ==
    LET Text(el) ==
            IF nodes[el].name.def /\ nodes[el].name.str # "" THEN nodes[el].name.str
            ELSE IF nodes[el].type = "StringLiteral" THEN nodes[el].strValue
            ELSE IF nodes[el].type = "NumericLiteral" /\ nodes[el].numValue # 0
            THEN ToString(nodes[el].numValue)
            ELSE IF nodes[el].type = "BooleanLiteral" /\ nodes[el].boolValue THEN "true"
            ELSE ""
    IN  IF depsNode = 0 \/ nodes[depsNode].type # "ArrayExpression" THEN << >>
        ELSE SelectSeq([k \in 1..Len(nodes[depsNode].elements) |-> Text(nodes[depsNode].elements[k])],
                       LAMBDA d : d # "")

\* generatorThrows: whether generate(undefined) of the installed @babel/generator
\* raises (later versions read ast.tokens) or prints the empty text
extractUseEffect(nodes, n, ex, generatorThrows) ==
    LET effectFunction == ArgOf(nodes, n, 1)
        depsNode == ArgOf(nodes, n, 2)
    IN  IF effectFunction = 0 THEN Result("ok", ex)
        ELSE IF nodes[effectFunction].body = 0 /\ generatorThrows THEN Result("throw", ex)
        ELSE IF depsNode # 0 /\ nodes[depsNode].type = "ArrayExpression"
                /\ \E k \in 1..Len(nodes[depsNode].elements) : nodes[depsNode].elements[k] = 0
        THEN Result("throw", ex)           \* TypeError: a hole in the dependency array is null
        ELSE Result("ok", [ex EXCEPT !.logic = Append(@,
                    [type |-> "effect",
                     code |-> cleanReactSyntax(IF nodes[effectFunction].body = 0 THEN ""
                                               ELSE nodes[nodes[effectFunction].body].text),
                     dependencies |-> extractEffectDependencies(nodes, depsNode)])])

\* the upward walk of extractUseCallback: "found" with the node it stops at (0 for
\* undefined), or "hang" when the loop never ends.  The loop assigns the same
\* node, path.parentPath.parent, in every iteration.
CallbackParent(nodes, n) ==
    LET parent == nodes[n].parent
        grand == IF parent = 0 THEN 0 ELSE nodes[parent].parent
    IN  IF parent = 0 \/ nodes[parent].type = "VariableDeclarator" THEN [status |-> "found", node |-> parent]
        ELSE IF grand = 0 \/ nodes[grand].type = "VariableDeclarator" THEN [status |-> "found", node |-> grand]
        ELSE [status |-> "hang", node |-> 0]

extractUseCallback(nodes, n, ex) ==
    LET walk == CallbackParent(nodes, n)
        parent == walk.node
        functionName == IF parent = 0 THEN Undefined ELSE NameOf(nodes, nodes[parent].id)
        callbackFunction == ArgOf(nodes, n, 1)
    IN  IF walk.status = "hang" THEN Result("hang", ex)
        ELSE IF functionName.def /\ functionName.str # "" /\ isTargetFunction(functionName.str)
        THEN IF callbackFunction = 0 \/ nodes[callbackFunction].body = 0
             THEN Result("throw", ex)      \* TypeError: params or body.type of undefined
             ELSE Result("ok", [ex EXCEPT !.functions =
                        MapSet(@, FunctionRecord(functionName.str,
                                                 convertCallbackToVanilla(nodes, callbackFunction, functionName.str),
                                                 "callback",
                                                 ParamNames(nodes, nodes[callbackFunction].params)))])
        ELSE Result("ok", ex)

\* the visitor of traverseAST applied to node n
VisitNode(nodes, n, ex, generatorThrows) ==
    LET DeclaratorState(r1) ==
            IF isUseStateCall(nodes, nodes[n].init) THEN extractState(nodes, n, r1.ex) ELSE r1
        CallCallback(r1) ==
            IF r1.status # "ok" THEN r1
            ELSE IF isUseCallbackCall(nodes, n) THEN extractUseCallback(nodes, n, r1.ex)
            ELSE r1
    IN  CASE nodes[n].type = "FunctionDeclaration" -> extractFunction(nodes, n, ex)
          [] nodes[n].type = "VariableDeclarator" ->
                DeclaratorState(
                    IF nodes[n].init # 0
                       /\ nodes[nodes[n].init].type \in {"ArrowFunctionExpression", "FunctionExpression"}
                    THEN extractArrowFunction(nodes, n, ex) ELSE Result("ok", ex))
          [] nodes[n].type = "CallExpression" ->
                CallCallback(
                    IF isUseEffectCall(nodes, n) THEN extractUseEffect(nodes, n, ex, generatorThrows)
                    ELSE Result("ok", ex))
          [] OTHER -> Result("ok", ex)

(***************************************************************************)
(* Source files.  A fragment is the subtree of one top-level statement,    *)
(* its nodes numbered from 1 in traversal order, the root's parent 0.      *)
(* The texts are the ones @babel/generator prints for such nodes.          *)
(***************************************************************************)
\* the fragment placed after k nodes, its root under node 1 (the Program)
ShiftFragment(frag, k) ==
    LET Shift(i) == IF i = 0 THEN 0 ELSE i + k
    IN  [j \in 1..Len(frag) |->
            [frag[j] EXCEPT !.parent = IF @ = 0 THEN 1 ELSE @ + k,
                            !.id = Shift(@), !.init = Shift(@),
                            !.callee = Shift(@), !.body = Shift(@),
                            !.params = [m \in 1..Len(@) |-> Shift(@[m])],
                            !.arguments = [m \in 1..Len(@) |-> Shift(@[m])],
                            !.elements = [m \in 1..Len(@) |-> Shift(@[m])]]]

RECURSIVE PlaceFragments(_, _)
PlaceFragments(frags, k) ==
    IF Len(frags) = 0 THEN << >>
    ELSE ShiftFragment(frags[1], k) \o PlaceFragments(Tail(frags), k + Len(frags[1]))

SourceFile(frags) ==
    [exists |-> TRUE, valid |-> TRUE, nodes |-> <<Node("Program", 0)>> \o PlaceFragments(frags, 1)]

MissingSource == [exists |-> FALSE, valid |-> FALSE, nodes |-> << >>]
InvalidSource == [exists |-> TRUE, valid |-> FALSE, nodes |-> << >>]

Ident(parent, name) == [Node("Identifier", parent) EXCEPT !.name = Str(name)]
Block(parent, text) == [Node("BlockStatement", parent) EXCEPT !.text = text]

\* function NAME(PARAM) BODY
FunctionFragment(name, param, bodyText) ==
    << [Node("FunctionDeclaration", 0) EXCEPT !.id = 2, !.params = <<3>>, !.body = 4,
            !.text = "function " \o name \o "(" \o param \o ") " \o bodyText],
       Ident(1, name), Ident(1, param), Block(1, bodyText) >>

\* const NAME = PARAM => BODY   (bodyType is BlockStatement or an expression type)
ArrowFragment(name, param, bodyType, bodyText) ==
    << [Node("VariableDeclaration", 0) EXCEPT !.text = "const " \o name \o " = " \o param \o " => " \o bodyText \o ";"],
       [Node("VariableDeclarator", 1) EXCEPT !.id = 3, !.init = 4],
       Ident(2, name),
       [Node("ArrowFunctionExpression", 2) EXCEPT !.params = <<5>>, !.body = 6,
            !.text = param \o " => " \o bodyText],
       Ident(4, param),
       [Node(bodyType, 4) EXCEPT !.text = bodyText] >>

\* const NAME = useCallback(PARAM => BODY, [])
CallbackFragment(name, param, bodyType, bodyText) ==
    << Node("VariableDeclaration", 0),
       [Node("VariableDeclarator", 1) EXCEPT !.id = 3, !.init = 4],
       Ident(2, name),
       [Node("CallExpression", 2) EXCEPT !.callee = 5, !.arguments = <<6, 9>>],
       Ident(4, "useCallback"),
       [Node("ArrowFunctionExpression", 4) EXCEPT !.params = <<7>>, !.body = 8,
            !.text = param \o " => " \o bodyText],
       Ident(6, param),
       [Node(bodyType, 6) EXCEPT !.text = bodyText],
       [Node("ArrayExpression", 4) EXCEPT !.text = "[]"] >>

\* const [GETTER, SETTER] = useState(INIT) ; init is the initializer's node, or
\* a node of type "none" for useState()
StateFragment(getter, setter, init) ==
    << Node("VariableDeclaration", 0),
       [Node("VariableDeclarator", 1) EXCEPT !.id = 3, !.init = 6],
       [Node("ArrayPattern", 2) EXCEPT !.elements = <<4, 5>>],
       Ident(3, getter), Ident(3, setter),
       [Node("CallExpression", 2) EXCEPT !.callee = 7,
            !.arguments = IF init.type = "none" THEN << >> ELSE <<8>>],
       Ident(6, "useState") >>
    \o (IF init.type = "none" THEN << >> ELSE <<[init EXCEPT !.parent = 6]>>)

\* useEffect(() => BODY, [DEP]);
EffectFragment(bodyText, dep) ==
    << Node("ExpressionStatement", 0),
       [Node("CallExpression", 1) EXCEPT !.callee = 3, !.arguments = <<4, 6>>],
       Ident(2, "useEffect"),
       [Node("ArrowFunctionExpression", 2) EXCEPT !.body = 5, !.text = "() => " \o bodyText],
       Block(4, bodyText),
       [Node("ArrayExpression", 2) EXCEPT !.elements = <<7>>, !.text = "[" \o dep \o "]"],
       Ident(6, dep) >>

\* useCallback(() => {}, []);  as a statement of its own: no enclosing declarator
BareCallbackFragment ==
    << Node("ExpressionStatement", 0),
       [Node("CallExpression", 1) EXCEPT !.callee = 3, !.arguments = <<4, 6>>],
       Ident(2, "useCallback"),
       [Node("ArrowFunctionExpression", 2) EXCEPT !.body = 5, !.text = "() => {}"],
       Block(4, "{}"),
       [Node("ArrayExpression", 2) EXCEPT !.text = "[]"] >>

\* const NAME = useCallback();
EmptyCallbackFragment(name) ==
    << Node("VariableDeclaration", 0),
       [Node("VariableDeclarator", 1) EXCEPT !.id = 3, !.init = 4],
       Ident(2, name),
       [Node("CallExpression", 2) EXCEPT !.callee = 5],
       Ident(4, "useCallback") >>

(***************************************************************************)
(* Inputs: the source files and target files the runs start from           *)
(***************************************************************************)
MaxRuns == 2

ReturnBody(k) == "{\n  return " \o ToString(k) \o ";\n}"
NestedBody == "{\n  if (e) {\n    setLoading(false);\n    return true;\n  }\n  return e.t;\n}"

\* one declaration of the given shape binding name, its body returning k
Declaration(shape, name, k) ==
    CASE shape = "function" -> FunctionFragment(name, "e", ReturnBody(k))
      [] shape = "arrow" -> ArrowFragment(name, "e", "NumericLiteral", ToString(k))
      [] shape = "callback" -> CallbackFragment(name, "e", "BlockStatement", ReturnBody(k))

\* two declarations, of any two shapes, under any two of the names
DeclSources ==
    {SourceFile(<<Declaration(s1, n1, 1), Declaration(s2, n2, 2)>>) :
        s1 \in {"function", "arrow", "callback"}, n1 \in {"isManager", "helper"},
        s2 \in {"function", "arrow", "callback"}, n2 \in {"isManager", "helper"}}

Literal(type, text) == [Node(type, 0) EXCEPT !.text = text]

\* the initializers of const [count, setCount] = useState(...)
InitNodes ==
    { Node("none", 0),
      Literal("NullLiteral", "null"),
      [Literal("BooleanLiteral", "true") EXCEPT !.boolValue = TRUE],
      Literal("BooleanLiteral", "false"),
      Literal("NumericLiteral", "0"),
      [Literal("NumericLiteral", "5") EXCEPT !.numValue = 5],
      [Literal("NumericLiteral", "42") EXCEPT !.numValue = 42],
      [Literal("StringLiteral", "\"abc\"") EXCEPT !.strValue = "abc"],
      Literal("StringLiteral", "\"\""),
      Literal("ArrayExpression", "[]"),
      Literal("ArrayExpression", "[1, 2]"),
      Literal("ObjectExpression", "{}"),
      Literal("ObjectExpression", "{\n  a: 1\n}"),
      [Literal("Identifier", "fallbackData") EXCEPT !.name = Str("fallbackData")],
      Literal("UnaryExpression", "-1"),
      Literal("CallExpression", "getInitial()"),
      [Literal("ArrowFunctionExpression", "() => 5") EXCEPT !.body = 0] }

StateSources == {SourceFile(<<StateFragment("count", "setCount", init)>>) : init \in InitNodes}

BasicSource ==
    SourceFile(<< StateFragment("loading", "setLoading", [Literal("BooleanLiteral", "true") EXCEPT !.boolValue = TRUE]),
                  FunctionFragment("isManager", "e", NestedBody),
                  ArrowFragment("getEmploymentStatus", "e", "MemberExpression", "e.status"),
                  CallbackFragment("loadData", "id", "BlockStatement", "{\n  setLoading(true);\n}"),
                  EffectFragment("{\n  loadData();\n}", "loadData") >>)

SimpleSource ==
    SourceFile(<< FunctionFragment("isManager", "e", ReturnBody(1)),
                  StateFragment("count", "setCount", Literal("NullLiteral", "null")) >>)

\* useState bindings other than two identifiers bound to a call with one argument:
\* const [, setCount] = useState(null);  const [{ a }, setForm] = useState(null);
\* const [count = 0, setCount] = useState(null);  const [count] = useState(null);
\* const [count, setCount] = useState(5, 1);
PatternSources ==
    LET Binding == StateFragment("count", "setCount", Literal("NullLiteral", "null"))
        Hole == [[Binding EXCEPT ![3].elements = <<0, 4>>]
                    EXCEPT ![4] = Ident(3, "setCount"),
                           ![5] = [Node("CallExpression", 2) EXCEPT !.callee = 6, !.arguments = <<7>>],
                           ![6] = Ident(5, "useState"),
                           ![7] = [Literal("NullLiteral", "null") EXCEPT !.parent = 5],
                           ![2].init = 5]
        Odd(type, text) == [Binding EXCEPT ![4] = [Node(type, 3) EXCEPT !.text = text]]
        Single == [Hole EXCEPT ![3].elements = <<4>>, ![4] = Ident(3, "count")]
        TwoArguments ==
            [Binding EXCEPT ![6].arguments = <<8, 9>>,
                            ![8] = [Literal("NumericLiteral", "5") EXCEPT !.parent = 6, !.numValue = 5]]
            \o <<[Literal("NumericLiteral", "1") EXCEPT !.parent = 6, !.numValue = 1]>>
    IN  {SourceFile(<<FunctionFragment("isManager", "e", ReturnBody(1)), frag>>) :
            frag \in {SubSeq(Hole, 1, 7), Odd("ObjectPattern", "{ a }"), Odd("AssignmentPattern", "count = 0"),
                      SubSeq(Single, 1, 7), TwoArguments}}

\* effect calls the visitor hands on:  useEffect(handler, []);  useEffect(() => {}, [a, , b]);
EffectSources ==
    LET Effect == EffectFragment("{}", "a")
        Handler == << Effect[1], [Effect[2] EXCEPT !.arguments = <<4, 5>>], Effect[3],
                      Ident(2, "handler"), [Node("ArrayExpression", 2) EXCEPT !.text = "[]"] >>
        HoleDeps == [Effect EXCEPT ![6].elements = <<7, 0, 8>>, ![6].text = "[a,, b]"] \o <<Ident(6, "b")>>
    IN  {SourceFile(<<FunctionFragment("isManager", "e", ReturnBody(1)), frag>>) : frag \in {Handler, HoleDeps}}

\* a function whose body declares a local variable under the name of a state variable
ShadowSource ==
    SourceFile(<< FunctionFragment("isManager", "e", "{\n  let count = 1;\n  return count > e;\n}"),
                  StateFragment("count", "setCount", Literal("NullLiteral", "null")) >>)

\* const loadData = useRef(useCallback(id => { load(id); }, [])).current;
\* the declarator is the third node above the useCallback call
WrappedSource ==
    SourceFile(<< FunctionFragment("isManager", "e", ReturnBody(1)),
                  << Node("VariableDeclaration", 0),
                     [Node("VariableDeclarator", 1) EXCEPT !.id = 3, !.init = 4],
                     Ident(2, "loadData"),
                     Node("MemberExpression", 2),
                     [Node("CallExpression", 4) EXCEPT !.callee = 6, !.arguments = <<7>>],
                     Ident(5, "useRef"),
                     [Node("CallExpression", 5) EXCEPT !.callee = 8, !.arguments = <<9, 12>>],
                     Ident(7, "useCallback"),
                     [Node("ArrowFunctionExpression", 7) EXCEPT !.params = <<10>>, !.body = 11,
                          !.text = "id => {\n  load(id);\n}"],
                     Ident(9, "id"),
                     Block(9, "{\n  load(id);\n}"),
                     [Node("ArrayExpression", 7) EXCEPT !.text = "[]"],
                     Ident(4, "current") >> >>)

HangingSource == SourceFile(<<FunctionFragment("isManager", "e", ReturnBody(1)), BareCallbackFragment>>)
ThrowingSource == SourceFile(<<FunctionFragment("isManager", "e", ReturnBody(1)), EmptyCallbackFragment("loadData")>>)

\* writable: whether fs.writeFileSync on the file succeeds (it raises EACCES on a
\* file without write permission)
TargetFile(text) == [exists |-> TRUE, text |-> text, writable |-> TRUE]
MissingTarget == [exists |-> FALSE, text |-> "", writable |-> TRUE]

FullTarget ==
    TargetFile("<script>\n    // Global state\n    let loading = false;\n\n    function isManager(e) {\n        return false;\n    }\n</script>\n")
MarkerTarget == TargetFile("<html>\n<script>\n</script>\n</html>\n")
PlainTarget == TargetFile("<html>\n<body></body>\n</html>\n")
RegionTarget ==
    TargetFile("<script>\n    // Global state\n    let other = 1;\n    // Functions\n    function isManager(e) { return 0; }\n</script>\n")
TwiceTarget ==
    TargetFile("<script>\n  function isManager(e) {\n    return 0;\n  }\n  let count = 0;\n  function isManager(e) {\n    return 1;\n  }\n</script>\n")
CommentTarget == TargetFile("<!-- function isManager(e) goes here -->\n<script>\n// global state\n</script>\n")

TwoScriptTarget == TargetFile("<script src=\"a.js\"></script>\n<script>\n  let count = 0;\n</script>\n")
UpperTarget == TargetFile("<SCRIPT>\n  let count = 0;\n  let loading = false;\n</SCRIPT>\n")

\* an index.html without write permission
ReadOnlyTarget == [FullTarget EXCEPT !.writable = FALSE]

PatchTargets ==
    {FullTarget, MarkerTarget, PlainTarget, RegionTarget, TwiceTarget, CommentTarget, TwoScriptTarget,
     UpperTarget}

\* the pairs of files a run can start from
Inputs ==
    ((DeclSources \cup StateSources) \X {FullTarget})
    \cup ({BasicSource} \X (PatchTargets \ {TwiceTarget}))
    \cup ({SimpleSource} \X PatchTargets)
    \cup ({MissingSource, InvalidSource, HangingSource, ThrowingSource, WrappedSource} \X {FullTarget})
    \cup ((PatternSources \cup EffectSources) \X {FullTarget})
    \cup ({SimpleSource, InvalidSource} \X {MissingTarget})
    \cup ({SimpleSource, BasicSource} \X {ReadOnlyTarget})
    \cup ({ShadowSource} \X {TwoScriptTarget, MarkerTarget})

(***************************************************************************)
(* The state of a process that runs SyncOrchestrator.sync                  *)
(***************************************************************************)
VARIABLES
    source,           \* the file at reactPath
    target,           \* the file at htmlPath
    generatorThrows,  \* whether the installed generator raises on generate(undefined)
    pc,               \* the orchestrator's state
    ex,               \* ReactExtractor: functions, state, logic, warnings
    cursor,           \* the next node of the traversal; 0 before the parse
    u,                \* HTMLUpdater: html (the buffer), updateCount, skipCount, warnings
    fnIdx,            \* the next entry of extractionResult.functions to patch
    stIdx,            \* the next entry of extractionResult.state to patch
    writes,           \* the number of writeFileSync calls of this run
    exitCode,         \* -1 while the process runs
    report,           \* the closing line of reportResults
    runs,             \* the number of runs started
    targetBefore,     \* the target file when the run started
    written,          \* the texts written to the target, over all runs
    cleanIn,          \* the call handed to cleanReactSyntax
    cleanOut,         \* its result
    watcher           \* FileWatcher: its phase, its debounce timer, the pending change

vars == <<source, target, generatorThrows, pc, ex, cursor, u, fnIdx, stIdx, writes, exitCode,
          report, runs, targetBefore, written, cleanIn, cleanOut, watcher>>

\* new ReactExtractor()
NewExtractor == [functions |-> << >>, state |-> << >>, logic |-> << >>, warnings |-> << >>]

\* new HTMLUpdater()
NewUpdater == [html |-> "", updateCount |-> 0, skipCount |-> 0, warnings |-> << >>]

\* node sync.js: no FileWatcher is built
NoWatcher ==
    [phase |-> "none", timer |-> -1, elapsed |-> 0, changed |-> FALSE, dirty |-> FALSE,
     overlap |-> FALSE, events |-> 0, burst |-> 0, syncs |-> 0]

Init ==
    /\ \E in \in Inputs : source = in[1] /\ target = in[2]
    /\ generatorThrows \in BOOLEAN
    /\ pc = "Idle"
    /\ ex = NewExtractor
    /\ cursor = 0
    /\ u = NewUpdater
    /\ fnIdx = 1
    /\ stIdx = 1
    /\ writes = 0
    /\ exitCode = -1
    /\ report = ""
    /\ runs = 0
    /\ targetBefore = target
    /\ written = << >>
    /\ cleanIn = [callee |-> "", arg |-> "", rest |-> ""]
    /\ cleanOut = Undefined
    /\ watcher = NoWatcher

files == <<source, target, generatorThrows>>
cleanVars == <<cleanIn, cleanOut>>

\* sync is called
Start ==
    /\ pc = "Idle"
    /\ runs < MaxRuns
    /\ pc' = "ValidatingPaths"
    /\ runs' = runs + 1
    /\ writes' = 0
    /\ exitCode' = -1
    /\ report' = ""
    /\ targetBefore' = target
    /\ cursor' = 0
    /\ UNCHANGED <<files, ex, u, fnIdx, stIdx, written, cleanVars, watcher>>

\* the catch block of sync: console.error and process.exit(1)
Fail ==
    /\ pc' = "Failed"
    /\ exitCode' = 1

\* a validation that looks at the source path only
ValidateSourceOnly ==
    /\ pc = "ValidatingPaths"
    /\ IF source.exists
       THEN pc' = "Extracting" /\ exitCode' = exitCode
       ELSE Fail
    /\ UNCHANGED <<files, ex, cursor, u, fnIdx, stIdx, writes, report, runs, targetBefore, written, cleanVars, watcher>>

\* fs.existsSync(reactPath), fs.existsSync(htmlPath)
ValidatePaths ==
    /\ pc = "ValidatingPaths"
    /\ IF source.exists /\ target.exists
       THEN pc' = "Extracting" /\ exitCode' = exitCode
       ELSE Fail
    /\ UNCHANGED <<files, ex, cursor, u, fnIdx, stIdx, writes, report, runs, targetBefore, written, cleanVars, watcher>>

\* an extraction that goes on after babel.parse has raised
ParseAnyway ==
    /\ pc = "Extracting"
    /\ cursor = 0
    /\ cursor' = 1
    /\ UNCHANGED <<files, pc, exitCode, ex, u, fnIdx, stIdx, writes, report, runs, targetBefore, written, cleanVars, watcher>>

\* fs.readFileSync and babel.parse in extractFromReact
Parse ==
    /\ pc = "Extracting"
    /\ cursor = 0
    /\ IF source.valid
       THEN cursor' = 1 /\ pc' = pc /\ exitCode' = exitCode
       ELSE cursor' = cursor /\ Fail
    /\ UNCHANGED <<files, ex, u, fnIdx, stIdx, writes, report, runs, targetBefore, written, cleanVars, watcher>>

\* what the traversal does with the visitor's result
Visited(r) ==
    /\ ex' = r.ex
    /\ CASE r.status = "ok" -> pc' = pc /\ exitCode' = exitCode /\ cursor' = cursor + 1
         [] r.status = "throw" -> Fail /\ cursor' = cursor
         [] r.status = "hang" -> pc' = "Hung" /\ exitCode' = exitCode /\ cursor' = cursor

\* traverse enters the next node and runs its visitor
Visit ==
    /\ pc = "Extracting"
    /\ cursor >= 1
    /\ cursor <= Len(source.nodes)
    /\ Visited(VisitNode(source.nodes, cursor, ex, generatorThrows))
    /\ UNCHANGED <<files, u, fnIdx, stIdx, writes, report, runs, targetBefore, written, cleanVars, watcher>>

\* extractFromReact returns; updateHTML reads the target file
BeginPatch ==
    /\ pc = "Extracting"
    /\ cursor > Len(source.nodes)
    /\ pc' = "Patching"
    /\ u' = [u EXCEPT !.html = target.text]
    /\ fnIdx' = 1
    /\ stIdx' = 1
    /\ UNCHANGED <<files, ex, cursor, writes, exitCode, report, runs, targetBefore, written, cleanVars, watcher>>

\* a function loop that raises on the first record it cannot place
PatchFunctionOrAbort ==
    LET Patched(r) ==
            IF r.skipCount > u.skipCount
            THEN u' = u /\ Fail
            ELSE u' = r /\ pc' = pc /\ exitCode' = exitCode
    IN  /\ pc = "Patching"
        /\ fnIdx <= Len(ex.functions)
        /\ Patched(updateFunction(u, ex.functions[fnIdx].name, ex.functions[fnIdx].code))
        /\ fnIdx' = fnIdx + 1
        /\ UNCHANGED <<files, ex, cursor, stIdx, writes, report, runs, targetBefore, written, cleanVars, watcher>>

\* one iteration of the loop over extractionResult.functions
PatchFunction ==
    /\ pc = "Patching"
    /\ fnIdx <= Len(ex.functions)
    /\ u' = updateFunction(u, ex.functions[fnIdx].name, ex.functions[fnIdx].code)
    /\ fnIdx' = fnIdx + 1
    /\ UNCHANGED <<files, pc, ex, cursor, stIdx, writes, exitCode, report, runs, targetBefore, written, cleanVars, watcher>>

\* a state loop that raises on the first record it cannot place
PatchStateOrAbort ==
    LET Patched(r) ==
            IF r.skipCount > u.skipCount
            THEN u' = u /\ Fail
            ELSE u' = r /\ pc' = pc /\ exitCode' = exitCode
    IN  /\ pc = "Patching"
        /\ fnIdx > Len(ex.functions)
        /\ stIdx <= Len(ex.state)
        /\ Patched(updateStateVariable(u, ex.state[stIdx]))
        /\ stIdx' = stIdx + 1
        /\ UNCHANGED <<files, ex, cursor, fnIdx, writes, report, runs, targetBefore, written, cleanVars, watcher>>

\* a state loop that counts an updated record twice
PatchStateCountTwice ==
    LET Counted(r) == [r EXCEPT !.updateCount = IF @ > u.updateCount THEN @ + 1 ELSE @]
    IN  /\ pc = "Patching"
        /\ fnIdx > Len(ex.functions)
        /\ stIdx <= Len(ex.state)
        /\ u' = Counted(updateStateVariable(u, ex.state[stIdx]))
        /\ stIdx' = stIdx + 1
        /\ UNCHANGED <<files, pc, ex, cursor, fnIdx, writes, exitCode, report, runs, targetBefore, written, cleanVars, watcher>>

\* one iteration of the loop of updateStateVariables
PatchState ==
    /\ pc = "Patching"
    /\ fnIdx > Len(ex.functions)
    /\ stIdx <= Len(ex.state)
    /\ u' = updateStateVariable(u, ex.state[stIdx])
    /\ stIdx' = stIdx + 1
    /\ UNCHANGED <<files, pc, ex, cursor, fnIdx, writes, exitCode, report, runs, targetBefore, written, cleanVars, watcher>>

\* a write of the buffer that does not wait for the loops to end
WriteEarly ==
    /\ pc = "Patching"
    /\ target' = [target EXCEPT !.text = u.html]
    /\ writes' = writes + 1
    /\ written' = Append(written, u.html)
    /\ pc' = "Reporting"
    /\ UNCHANGED <<source, generatorThrows, ex, cursor, u, fnIdx, stIdx, exitCode, report, runs, targetBefore, cleanVars, watcher>>

\* fs.writeFileSync(htmlPath, htmlContent) and the return of updateHTML; an error of
\* the write is rethrown by updateHTML's catch and ends in the catch block of sync
WriteTarget ==
    /\ pc = "Patching"
    /\ fnIdx > Len(ex.functions)
    /\ stIdx > Len(ex.state)
    /\ IF target.writable
       THEN /\ target' = [target EXCEPT !.text = u.html]
            /\ writes' = writes + 1
            /\ written' = Append(written, u.html)
            /\ pc' = "Reporting"
            /\ exitCode' = exitCode
       ELSE /\ Fail
            /\ UNCHANGED <<target, writes, written>>
    /\ UNCHANGED <<source, generatorThrows, ex, cursor, u, fnIdx, stIdx, report, runs, targetBefore, cleanVars, watcher>>

\* a report that treats a skipped item as a failure of the run
ReportFailsOnSkip ==
    /\ pc = "Reporting"
    /\ IF u.skipCount = 0
       THEN report' = "success" /\ pc' = "Done" /\ exitCode' = 0
       ELSE report' = "issues" /\ Fail
    /\ UNCHANGED <<files, ex, cursor, u, fnIdx, stIdx, writes, runs, targetBefore, written, cleanVars, watcher>>

\* reportResults, after which main returns and the process ends with code 0
Report ==
    /\ pc = "Reporting"
    /\ report' = IF u.skipCount = 0 /\ Len(u.warnings) = 0 THEN "success" ELSE "issues"
    /\ pc' = "Done"
    /\ exitCode' = 0
    /\ UNCHANGED <<files, ex, cursor, u, fnIdx, stIdx, writes, runs, targetBefore, written, cleanVars, watcher>>

\* node sync.js is run again: main builds a new SyncOrchestrator
NewProcess ==
    /\ pc \in {"Done", "Failed"}
    /\ runs < MaxRuns
    /\ pc' = "Idle"
    /\ ex' = NewExtractor
    /\ u' = NewUpdater
    /\ cursor' = 0
    /\ fnIdx' = 1
    /\ stIdx' = 1
    /\ exitCode' = -1
    /\ UNCHANGED <<files, writes, report, runs, targetBefore, written, cleanVars, watcher>>

Next ==
    \/ Start
    \/ ValidatePaths
    \/ Parse
    \/ Visit
    \/ BeginPatch
    \/ PatchFunction
    \/ PatchState
    \/ WriteTarget
    \/ Report
    \/ NewProcess

Spec == Init /\ [][Next]_vars


(***************************************************************************)
(* cleanReactSyntax on its own: one call CALLEE(ARG)REST is cleaned        *)
(***************************************************************************)
Callees == {"setCount", "setX", "setLoading", "updateCount", "resetCount", "setup", "settle", "map.set"}
Arguments == {"5", "value", "\"x\"", "prev => prev + 1", "f(1)", "f(1) + 2", "(a + b) * 2", "{\n  a: 1\n}"}
Rests == {"", ";", ";\nreturn 1;"}

CallText(call) == call.callee \o "(" \o call.arg \o ")" \o call.rest

CleanInit ==
    /\ cleanIn \in [callee : Callees, arg : Arguments, rest : Rests]
    /\ cleanOut = Undefined
    /\ source = MissingSource
    /\ target = MissingTarget
    /\ generatorThrows = FALSE
    /\ pc = "Idle"
    /\ ex = NewExtractor
    /\ cursor = 0
    /\ u = NewUpdater
    /\ fnIdx = 1
    /\ stIdx = 1
    /\ writes = 0
    /\ exitCode = -1
    /\ report = ""
    /\ runs = 0
    /\ targetBefore = target
    /\ written = << >>
    /\ watcher = NoWatcher

\* a convert* function hands the generated code to cleanReactSyntax
Clean ==
    /\ ~cleanOut.def
    /\ cleanOut' = Str(cleanReactSyntax(CallText(cleanIn)))
    /\ UNCHANGED <<files, pc, ex, cursor, u, fnIdx, stIdx, writes, exitCode, report, runs,
                   targetBefore, written, cleanIn, watcher>>

SpecClean == CleanInit /\ [][Clean]_vars

(***************************************************************************)
(* The file watcher: one FileWatcher with one SyncOrchestrator, an initial  *)
(* sync, then a sync after each burst of changes of the source file         *)
(***************************************************************************)
debounceDelay == 1500
interval == 500
MaxEvents == 2

\* the contents src/app/page.js goes through while it is watched
WatchSources ==
    {SimpleSource, SourceFile(<<StateFragment("count", "setCount", Literal("NumericLiteral", "0"))>>),
     InvalidSource}

\* new FileWatcher(): a new SyncOrchestrator, debounceTimeout = null
WatchInit ==
    /\ source \in WatchSources
    /\ target \in {FullTarget, MarkerTarget}
    /\ generatorThrows = FALSE
    /\ pc = "Idle"
    /\ ex = NewExtractor
    /\ cursor = 0
    /\ u = NewUpdater
    /\ fnIdx = 1
    /\ stIdx = 1
    /\ writes = 0
    /\ exitCode = -1
    /\ report = ""
    /\ runs = 0
    /\ targetBefore = target
    /\ written = << >>
    /\ cleanIn = [callee |-> "", arg |-> "", rest |-> ""]
    /\ cleanOut = Undefined
    /\ watcher = [NoWatcher EXCEPT !.phase = "starting"]

\* a callback scheduled on every macrotask turn, a sync between two awaits or not
LoopAlways == TRUE

\* A timer callback, a watchFile listener or a signal handler runs only when no sync
\* is between its call and its return: extractFromReact and updateHTML use
\* readFileSync and writeFileSync, so the promises sync awaits are already settled
\* and its continuations run as microtasks, ahead of every callback of the loop.
LoopIdle == pc \in {"Idle", "Done"}

\* this.orchestrator.sync(this.pageJsPath, this.indexHtmlPath) on the watcher's orchestrator:
\* the extractor and the updater are the ones the constructor built
SyncCalled ==
    /\ pc' = "ValidatingPaths"
    /\ runs' = runs + 1
    /\ writes' = 0
    /\ exitCode' = -1
    /\ report' = ""
    /\ targetBefore' = target
    /\ cursor' = 0
    /\ UNCHANGED <<files, ex, u, fnIdx, stIdx, written, cleanVars>>

\* start(): the initial sync
InitialSync ==
    /\ watcher.phase = "starting"
    /\ watcher' = [watcher EXCEPT !.phase = "initial", !.dirty = FALSE]
    /\ SyncCalled

\* start(): fs.watchFile and process.on('SIGINT') once the initial sync has returned
StartWatching ==
    /\ watcher.phase = "initial"
    /\ pc = "Done"
    /\ watcher' = [watcher EXCEPT !.phase = "watching"]
    /\ UNCHANGED <<files, pc, ex, cursor, u, fnIdx, stIdx, writes, exitCode, report, runs,
                   targetBefore, written, cleanVars>>

\* the file is saved by its editor (or its access time changes); watchFile will see
\* the new stat once it is registered
Modify ==
    /\ watcher.phase \in {"initial", "watching"}
    /\ pc # "Failed"
    /\ watcher.events < MaxEvents
    /\ source' \in WatchSources
    /\ watcher' = [watcher EXCEPT !.changed = (watcher.phase = "watching"),
                                  !.dirty = TRUE,
                                  !.overlap = @ \/ ~LoopIdle,
                                  !.events = @ + 1]
    /\ UNCHANGED <<target, generatorThrows, pc, ex, cursor, u, fnIdx, stIdx, writes, exitCode, report,
                   runs, targetBefore, written, cleanVars>>

\* a debouncedSync that keeps a pending timer instead of replacing it
debouncedSyncKeepTimer(w) ==
    [w EXCEPT !.timer = IF @ >= 0 THEN @ ELSE debounceDelay,
              !.elapsed = 0,
              !.burst = IF w.timer >= 0 THEN @ + 1 ELSE 1,
              !.syncs = 0]

\* debouncedSync: clearTimeout(this.debounceTimeout), then setTimeout(..., this.debounceDelay)
debouncedSync(w) ==
    [w EXCEPT !.timer = debounceDelay,
              !.elapsed = 0,
              !.burst = IF w.timer >= 0 THEN @ + 1 ELSE 1,
              !.syncs = 0]

\* the listener of fs.watchFile: curr.mtime !== prev.mtime compares two Date objects
\* and is always true
Poll ==
    /\ watcher.phase = "watching"
    /\ watcher.changed
    /\ LoopIdle
    /\ watcher' = debouncedSync([watcher EXCEPT !.changed = FALSE])
    /\ UNCHANGED <<files, pc, ex, cursor, u, fnIdx, stIdx, writes, exitCode, report, runs,
                   targetBefore, written, cleanVars>>

\* one polling interval goes by while the debounce timer is pending
Tick ==
    /\ watcher.phase = "watching"
    /\ watcher.timer > 0
    /\ LoopIdle
    /\ LET step == IF watcher.timer < interval THEN watcher.timer ELSE interval
       IN  watcher' = [watcher EXCEPT !.timer = @ - step, !.elapsed = @ + step]
    /\ UNCHANGED <<files, pc, ex, cursor, u, fnIdx, stIdx, writes, exitCode, report, runs,
                   targetBefore, written, cleanVars>>

\* the callback of setTimeout in debouncedSync
TimerFire ==
    /\ watcher.phase = "watching"
    /\ watcher.timer = 0
    /\ LoopIdle
    /\ watcher' = [watcher EXCEPT !.timer = -1, !.syncs = @ + 1, !.dirty = FALSE]
    /\ SyncCalled

\* SIGINT: fs.unwatchFile and process.exit(0)
Interrupt ==
    /\ watcher.phase = "watching"
    /\ LoopIdle
    /\ watcher' = [watcher EXCEPT !.phase = "stopped", !.timer = -1]
    /\ UNCHANGED <<files, pc, ex, cursor, u, fnIdx, stIdx, writes, exitCode, report, runs,
                   targetBefore, written, cleanVars>>

WatchNext ==
    \/ InitialSync
    \/ StartWatching
    \/ Modify
    \/ Poll
    \/ Tick
    \/ TimerFire
    \/ Interrupt
    \/ ValidatePaths
    \/ Parse
    \/ Visit
    \/ BeginPatch
    \/ PatchFunction
    \/ PatchState
    \/ WriteTarget
    \/ Report

SpecWatch == WatchInit /\ [][WatchNext]_vars

(***************************************************************************)
(* Properties                                                              *)
(***************************************************************************)
\* C1 -- Patch idempotence: the text a second run writes, with the source unchanged,
\* is the text the first run wrote (replacement path and insertion path alike).
PatchIdempotent == Len(written) >= 2 => written[2] = written[1]

\* C2 -- Parse failure: with a source that does not parse, the run never patches,
\* reports or ends normally, never writes, leaves the target file as it was before
\* the run, and its only step out of the extraction is to Failed with exit code 1.
ParseFailure ==
    /\ [](source.exists /\ target.exists /\ ~source.valid
            => /\ pc \notin {"Patching", "Reporting", "Done", "Hung"}
               /\ writes = 0
               /\ target = targetBefore
               /\ (pc = "Failed" => exitCode = 1))
    /\ [][source.exists /\ ~source.valid /\ pc = "Extracting" => pc' = "Failed" /\ exitCode' = 1]_vars

ParseFailureSeen ==
    pc = "Failed" /\ exitCode = 1 /\ source.exists /\ target.exists /\ ~source.valid /\ runs = 2

\* C3 -- No partial write: a run writes the target at most once; the write happens
\* with both loops at their end and writes the buffer with every function record
\* and every state record applied; a run that is Failed has written nothing.
NoPartialWrite ==
    /\ [](writes <= 1 /\ (pc = "Failed" => writes = 0))
    /\ [][(writes' > writes \/ target' # target)
            => /\ pc = "Patching"
               /\ fnIdx > Len(ex.functions)
               /\ stIdx > Len(ex.state)
               /\ writes = 0
               /\ writes' = 1
               /\ target'.text = updateHTML(NewUpdater, targetBefore.text, ex).html]_vars

WrittenOnce ==
    pc = "Done" /\ writes = 1 /\ Len(ex.functions) >= 2 /\ Len(ex.state) >= 1 /\ target # targetBefore

\* the next function record finds neither a declaration of its name nor a </script>
HardFailureCase ==
    /\ pc = "Patching"
    /\ fnIdx <= Len(ex.functions)
    /\ FirstPattern(u.html, ex.functions[fnIdx].name) = 0
    /\ IndexFrom(u.html, 1, "</script>") = 0

\* C4 -- Hard failure: when no pattern matches the record's name and the text has no
\* </script>, updateFunction leaves the text and updateCount as they are, adds 1 to
\* skipCount and appends one warning, which contains the name.
HardFailure ==
    [][HardFailureCase
        => /\ u'.html = u.html
           /\ u'.skipCount = u.skipCount + 1
           /\ u'.updateCount = u.updateCount
           /\ Len(u'.warnings) = Len(u.warnings) + 1
           /\ SubSeq(u'.warnings, 1, Len(u.warnings)) = u.warnings
           /\ IndexFrom(u'.warnings[Len(u'.warnings)], 1, ex.functions[fnIdx].name) # 0]_vars

HardFailureSeen ==
    /\ pc = "Patching"
    /\ fnIdx = 2
    /\ u.skipCount = 1
    /\ u.updateCount = 0
    /\ Len(u.warnings) = 1
    /\ u.html = PlainTarget.text

\* the characters of a text that are not whitespace
Squeeze(s) == SelectSeq([i \in 1..Len(s) |-> At(s, i)], LAMBDA c : c \notin SpaceChar)

\* the declarations of name in a text: the opening braces of function NAME (...) {
Declarations(s, name) == {BodyBrace(s, i, name, TRUE) : i \in 1..Len(s)} \ {0}

\* new is old with the code, padded by whitespace only, put in right before index p
InsertedBefore(old, new, p, code) ==
    /\ Len(new) > Len(old)
    /\ SubSeq(new, 1, p - 1) = SubSeq(old, 1, p - 1)
    /\ SubSeq(new, p + Len(new) - Len(old), Len(new)) = SubSeq(old, p, Len(old))
    /\ Squeeze(SubSeq(new, p, p + Len(new) - Len(old) - 1)) = Squeeze(code)
    /\ LastIndexOf(new, "</script>") = p + Len(new) - Len(old)

\* the next function record finds no declaration of its name but a </script>
InsertionCase ==
    /\ pc = "Patching"
    /\ fnIdx <= Len(ex.functions)
    /\ FirstPattern(u.html, ex.functions[fnIdx].name) = 0
    /\ IndexFrom(u.html, 1, "</script>") # 0

\* C5 -- Insertion fallback: when no pattern matches the record's name and the text
\* has a </script>, the declaration goes in right before the last </script>, with
\* whitespace padding only; the text then holds exactly one declaration of the
\* name, updateCount has grown by 1 and skipCount is still 0.
InsertionFallback ==
    [][InsertionCase
        => /\ InsertedBefore(u.html, u'.html, LastIndexFrom(u.html, Len(u.html), "</script>"),
                             ex.functions[fnIdx].code)
           /\ Cardinality(Declarations(u'.html, ex.functions[fnIdx].name)) = 1
           /\ u'.updateCount = u.updateCount + 1
           /\ u'.skipCount = 0
           /\ u'.warnings = u.warnings]_vars

InsertionSeen ==
    /\ pc = "Patching"
    /\ fnIdx = 2
    /\ u.updateCount = 1
    /\ u.skipCount = 0
    /\ targetBefore = TwoScriptTarget
    /\ Declarations(target.text, ex.functions[1].name) = {}
    /\ Cardinality(Declarations(u.html, ex.functions[1].name)) = 1

\* the function records the visitor of node n makes on its own
RecordsOf(nodes, n) == VisitNode(nodes, n, NewExtractor, FALSE).ex.functions

\* the name node n declares as a plain function, as an arrow or function
\* expression bound to a variable, or as a useCallback binding
DeclaredName(nodes, n) ==
    IF nodes[n].type = "FunctionDeclaration" THEN NameOf(nodes, nodes[n].id)
    ELSE IF nodes[n].type = "VariableDeclarator" /\ nodes[n].init # 0
            /\ nodes[nodes[n].init].type \in {"ArrowFunctionExpression", "FunctionExpression"}
    THEN NameOf(nodes, nodes[n].id)
    ELSE IF isUseCallbackCall(nodes, n) /\ nodes[nodes[n].parent].type = "VariableDeclarator"
    THEN NameOf(nodes, nodes[nodes[n].parent].id)
    ELSE Undefined

\* the nodes before the cursor that are qualifying declarations of name
Qualifying(nodes, name, before) == {n \in 1..(before - 1) : DeclaredName(nodes, n) = Str(name)}

\* the one record of the map under name is the one made from node n
HoldsRecordOf(functions, name, nodes, n) ==
    /\ Cardinality({k \in 1..Len(functions) : functions[k].name = name}) = 1
    /\ \A k \in 1..Len(functions) : functions[k].name = name => <<functions[k]>> = RecordsOf(nodes, n)

\* C6 -- Name overwrite: for every name with qualifying declarations among the nodes
\* visited so far, the function map holds exactly one record under the name, the
\* one made from the last of them in traversal order.
NameOverwrite ==
    pc \in {"Extracting", "Patching", "Reporting", "Done"} /\ cursor >= 1
    => \A name \in {"organizeEmployeeData", "getEmploymentStatus", "isManager", "fetchEmployeeData", "loadData"} :
          Qualifying(source.nodes, name, cursor) # {}
          => HoldsRecordOf(ex.functions, name, source.nodes,
                           CHOOSE n \in Qualifying(source.nodes, name, cursor) :
                               \A m \in Qualifying(source.nodes, name, cursor) : m <= n)

Overwritten ==
    /\ pc = "Done"
    /\ Cardinality(Qualifying(source.nodes, "isManager", cursor)) = 2
    /\ Len(ex.functions) = 1
    /\ ex.functions[1].type = "callback"
    /\ \E n \in Qualifying(source.nodes, "isManager", cursor) : source.nodes[n].type = "VariableDeclarator"

ShapesOf(nodes, name) ==
    {nodes[n].type : n \in {m \in 1..Len(nodes) :
                              /\ nodes[m].type \in {"FunctionDeclaration", "VariableDeclarator"}
                              /\ NameOf(nodes, nodes[m].id) = Str(name)}}
    \cup {"useCallback" : n \in {m \in 1..Len(nodes) :
                              /\ nodes[m].type = "VariableDeclarator"
                              /\ NameOf(nodes, nodes[m].id) = Str(name)
                              /\ isUseCallbackCall(nodes, nodes[m].init)}}

IsSetter(callee) ==
    /\ HasAt(callee, 1, "set")
    /\ At(callee, 4) \in CharsOf(UpperLetters)
    /\ \A k \in 1..Len(callee) : At(callee, k) \in WordChar

\* C8 -- Setter rewrite: the call setX(value) comes out of cleanReactSyntax as
\* x = value, x being X with its first letter in lower case and value the whole
\* argument text, whatever the argument is.
SetterRewritten ==
    cleanOut.def /\ IsSetter(cleanIn.callee)
    => cleanOut.str = LowerChar(At(cleanIn.callee, 4)) \o SubSeq(cleanIn.callee, 5, Len(cleanIn.callee))
                      \o " = " \o cleanIn.arg \o cleanIn.rest

\* C9 -- Setter rewrite scope: a call whose callee is not set followed by a
\* capitalized name comes out of cleanReactSyntax with callee and argument unchanged.
OthersPassThrough ==
    cleanOut.def /\ ~IsSetter(cleanIn.callee) => cleanOut.str = CallText(cleanIn)

\* the initial-value text of an initializer node (0 when there is none)
LiteralText(nodes, n) ==
    IF n = 0 THEN "null"
    ELSE IF nodes[n].type = "NullLiteral" THEN "null"
    ELSE IF nodes[n].type \in {"BooleanLiteral", "NumericLiteral"} THEN nodes[n].text
    ELSE IF nodes[n].type = "StringLiteral" THEN "\"" \o nodes[n].strValue \o "\""
    ELSE IF nodes[n].type = "ArrayExpression" THEN "[]"
    ELSE IF nodes[n].type = "ObjectExpression" THEN "{}"
    ELSE "null"

\* the declarators const [x, setX] = useState(v) of a source, in source order
StateDeclarators(nodes) ==
    SelectSeq([n \in 1..Len(nodes) |-> n],
              LAMBDA n : /\ nodes[n].type = "VariableDeclarator"
                         /\ isUseStateCall(nodes, nodes[n].init)
                         /\ nodes[n].id # 0
                         /\ nodes[nodes[n].id].type = "ArrayPattern"
                         /\ Len(nodes[nodes[n].id].elements) = 2)

InitializerOf(nodes, n) == ArgOf(nodes, nodes[n].init, 1)

\* C10 -- State literal mapping: the record of each state declaration carries null
\* for null, the literal's text for a boolean or a number, the double-quoted
\* string for a string, [] for an array, {} for an object and null for any
\* other or missing initializer; nested contents do not appear.
StateLiteralMapping ==
    pc \in {"Patching", "Reporting", "Done"}
    => /\ Len(ex.state) = Len(StateDeclarators(source.nodes))
       /\ \A k \in 1..Len(ex.state) :
             ex.state[k].initialValue =
                 LiteralText(source.nodes, InitializerOf(source.nodes, StateDeclarators(source.nodes)[k]))

NestedDropped ==
    /\ pc = "Done"
    /\ Len(ex.state) = 1
    /\ ex.state[1].initialValue = "[]"
    /\ InitializerOf(source.nodes, StateDeclarators(source.nodes)[1]) # 0
    /\ source.nodes[InitializerOf(source.nodes, StateDeclarators(source.nodes)[1])].text = "[1, 2]"

\* C11 -- Path validation: when the source file or the target file does not exist, the run
\* goes from ValidatingPaths to Failed with exit code 1; it never enters Extracting or
\* Patching: nothing is parsed, the target is neither read into the buffer nor written.
PathValidation ==
    /\ [](~source.exists \/ ~target.exists
            => /\ pc \notin {"Extracting", "Patching", "Reporting", "Done", "Hung"}
               /\ cursor = 0
               /\ ex = NewExtractor
               /\ u = NewUpdater
               /\ writes = 0
               /\ target = targetBefore
               /\ (pc = "Failed" => exitCode = 1))
    /\ [][pc = "ValidatingPaths" /\ (~source.exists \/ ~target.exists)
            => pc' = "Failed" /\ exitCode' = 1]_vars

MissingPathSeen ==
    /\ pc = "Failed"
    /\ exitCode = 1
    /\ source.exists
    /\ source.valid
    /\ ~target.exists
    /\ cursor = 0

\* C12 -- Final report: a run that reaches Reporting ends in Done with exit code 0, items
\* skipped or not; the closing line is the success message exactly when nothing was
\* skipped and neither the extraction warnings nor the patch warnings hold an entry,
\* and the issues notice otherwise.
FinalReport ==
    /\ [](pc = "Done"
            => /\ exitCode = 0
               /\ report \in {"success", "issues"}
               /\ (report = "success"
                     <=> u.skipCount = 0 /\ Len(ex.warnings) = 0 /\ Len(u.warnings) = 0))
    /\ [][pc = "Reporting" => pc' = "Done" /\ exitCode' = 0]_vars

IssuesReported ==
    /\ pc = "Done"
    /\ exitCode = 0
    /\ u.skipCount > 0
    /\ u.updateCount > 0
    /\ report = "issues"

CustomDetected ==
    pc \in {"Patching", "Reporting", "Done"}
    => \A n \in 1..Len(source.nodes) :
          DeclaredName(source.nodes, n).def
          => DeclaredName(source.nodes, n).str \in MapKeys(ex.functions)

\* C18 -- Extraction terminates: the traversal of a source that parses never stays in the
\* upward walk of extractUseCallback, wherever the useCallback call sits.
ExtractionTerminates == source.valid => pc # "Hung"

\* C19 -- State records: the reader and writer names of every state record are identifier
\* strings, and a two-element pattern that holds a hole, a nested pattern or a default
\* value raises no error in the declarator's visitor.
StateRecordNames ==
    /\ \A k \in 1..Len(ex.state) : ex.state[k].getter.def /\ ex.state[k].setter.def
    /\ ~(pc = "Failed" /\ cursor >= 1 /\ source.nodes[cursor].type = "VariableDeclarator")

\* C20 -- The generator never raises: no run is aborted in the visitor of a call
\* expression, that is while an effect call or a useCallback call handed on by the
\* classification is turned into text.
GeneratorNeverRaises ==
    ~(pc = "Failed" /\ cursor >= 1 /\ source.nodes[cursor].type = "CallExpression")

\* C13 -- No state shared across invocations: when a run of the watcher's orchestrator
\* ends and the source was not changed since the run began, the function map holds only
\* functions the source declares, there is one state record per useState binding of the
\* source, and the counts and warnings are those of this run's records.
RunsIndependent ==
    pc = "Done" /\ watcher.phase # "none" /\ ~watcher.dirty
    => /\ \A k \in 1..Len(ex.functions) :
             Qualifying(source.nodes, ex.functions[k].name, Len(source.nodes) + 1) # {}
       /\ Len(ex.state) = Len(StateDeclarators(source.nodes))
       /\ u.updateCount + u.skipCount = Len(ex.functions) + Len(ex.state)
       /\ Len(u.warnings) = u.skipCount

\* C14 -- Debounce collapse: while change events follow each other by less than
\* debounceDelay no sync starts; the timer of the last event is the only one pending,
\* and the one sync of the burst starts when debounceDelay has gone by since that event.
DebounceCollapse ==
    /\ [](watcher.timer >= 0
            => watcher.timer + watcher.elapsed = debounceDelay /\ watcher.syncs = 0)
    /\ [](watcher.syncs <= 1)
    /\ [][watcher.phase = "watching" /\ runs' = runs + 1
            => /\ watcher.timer = 0
               /\ watcher.elapsed = debounceDelay
               /\ watcher'.syncs = 1
               /\ watcher'.timer = -1]_vars

BurstCollapsed ==
    /\ watcher.phase = "watching"
    /\ watcher.burst = 2
    /\ watcher.syncs = 1
    /\ runs = 2
    /\ pc = "Done"

\* C15 -- Mutual exclusion of cycles: a sync is called, by start or by the debounce
\* timer, only when no other sync is between its call and its report or failure,
\* whenever the file changes.
OneCycleAtATime ==
    [][runs' = runs + 1 => pc \in {"Idle", "Done"} /\ pc' = "ValidatingPaths"]_vars

ChangedDuringCycle ==
    /\ watcher.overlap
    /\ watcher.syncs = 1
    /\ runs = 2
    /\ pc = "Patching"

IndentationPreserved ==
    [][pc = "Patching" /\ fnIdx <= Len(ex.functions)
        => LET name == ex.functions[fnIdx].name
               LastBreak(i, a) ==
                   IF \E p \in i..(a - 1) : At(u.html, p) = "\n"
                   THEN CHOOSE p \in i..(a - 1) :
                           At(u.html, p) = "\n" /\ \A q \in (p + 1)..(a - 1) : At(u.html, q) # "\n"
                   ELSE i - 1
               Kept(i, a, nl, code) ==
                   HasAt(u'.html, i, SubSeq(u.html, i, nl) \o indentCode(code, a - 1 - nl))
               Declared(i, a, code) == Kept(i, a, LastBreak(i, a), code)
               Matched(i, code) == Declared(i, SkipIn(u.html, i, SpaceChar), code)
               With(k) ==
                   k # 0 => Matched(NextStart(StartsOf(u.html, FunctionPatternEnds(k, u.html, name)), 1),
                                    Trim(ReplaceLit(ex.functions[fnIdx].code, "undefined", "")))
           IN  With(FirstPattern(u.html, name))]_vars

\* C23 -- One record, one region: an in-place replacement adds 1 to updateCount and
\* changes the text of one matched declaration only; the text before that region and
\* the text after it, other declarations of the name included, stay as they were.
OneRegion ==
    [][pc = "Patching" /\ fnIdx <= Len(ex.functions)
        => LET name == ex.functions[fnIdx].name
               Outside(old, new, i, e) ==
                   /\ Len(new) >= (i - 1) + (Len(old) - e + 1)
                   /\ SubSeq(new, 1, i - 1) = SubSeq(old, 1, i - 1)
                   /\ SubSeq(new, Len(new) - (Len(old) - e), Len(new)) = SubSeq(old, e, Len(old))
               Replaced(ends) ==
                   /\ u'.updateCount = u.updateCount + 1
                   /\ u'.skipCount = u.skipCount
                   /\ \E i \in StartsOf(u.html, ends) : Outside(u.html, u'.html, i, ends[i])
               With(k) == k # 0 => Replaced(FunctionPatternEnds(k, u.html, name))
           IN  With(FirstPattern(u.html, name))]_vars

\* C24 -- State update frame: when the text holds a statement let <getter> = ...; the
\* reconciliation of the record replaces one such statement by let <getter> = <initialValue>;
\* and changes nothing else, the functions patched before included; updateCount grows by 1.
StateUpdateFrame ==
    [][pc = "Patching" /\ fnIdx > Len(ex.functions) /\ stIdx <= Len(ex.state)
        => LET v == ex.state[stIdx]
               Updated(ends) ==
                   StartsOf(u.html, ends) # {}
                   => /\ u'.updateCount = u.updateCount + 1
                      /\ u'.skipCount = u.skipCount
                      /\ \E i \in StartsOf(u.html, ends) :
                            u'.html = SubSeq(u.html, 1, i - 1)
                                      \o "let " \o v.getter.str \o " = " \o v.initialValue \o ";"
                                      \o SubSeq(u.html, ends[i], Len(u.html))
           IN  Updated([i \in 1..Len(u.html) |-> VarPatternEnd(u.html, i, v.getter.str)])]_vars

\* C25 -- State skip condition: a state record is skipped, with a warning, exactly when
\* the text holds neither a statement let <getter> = ...; nor the global-state comment
\* marker; with the marker and no statement, the line
\* let <getter> = <initialValue>; // <setter> is added to the text and updateCount grows.
StateSkipCondition ==
    [][pc = "Patching" /\ fnIdx > Len(ex.functions) /\ stIdx <= Len(ex.state)
        => LET v == ex.state[stIdx]
               Within(hay, needle) == \E i \in 1..Len(hay) : HasAt(hay, i, needle)
               Word(a, b) == b > a /\ HasAtCI(u.html, b, "state")
               Global(a) == HasAtCI(u.html, a, "Global") /\ Word(a + 6, SkipIn(u.html, a + 6, SpaceChar))
               Marker == \E i \in 1..Len(u.html) :
                            HasAt(u.html, i, "//") /\ Global(SkipIn(u.html, i + 2, SpaceChar))
               Statement == \E i \in 1..Len(u.html) : VarPatternEnd(u.html, i, v.getter.str) # 0
               Skipped ==
                   /\ u'.skipCount = u.skipCount + 1
                   /\ u'.warnings = Append(u.warnings, "Could not update state variable: " \o v.getter.str)
                   /\ u'.html = u.html
                   /\ u'.updateCount = u.updateCount
               Appended ==
                   /\ u'.updateCount = u.updateCount + 1
                   /\ u'.skipCount = u.skipCount
                   /\ Within(u'.html, "let " \o v.getter.str \o " = " \o v.initialValue
                                      \o "; // " \o v.setter.str)
           IN  /\ Skipped <=> ~Statement /\ ~Marker
               /\ ~Statement /\ Marker => Appended]_vars

CallbackPolicy ==
    [][pc = "Extracting" /\ cursor >= 1 /\ cursor <= Len(source.nodes)
            /\ isUseCallbackCall(source.nodes, cursor)
        => LET nodes == source.nodes
               Up(n) == IF n = 0 THEN 0 ELSE nodes[n].parent
               Declarator(n) == n # 0 /\ nodes[n].type = "VariableDeclarator"
               \* the nodes above the call, nearest first (no call sits deeper than this)
               Above(c) == <<Up(c), Up(Up(c)), Up(Up(Up(c))), Up(Up(Up(Up(c))))>>
               Nearest(above) ==
                   IF \E j \in 1..Len(above) : Declarator(above[j])
                   THEN above[CHOOSE j \in 1..Len(above) :
                                  Declarator(above[j]) /\ \A i \in 1..(j - 1) : ~Declarator(above[i])]
                   ELSE 0
               Header(name, callback) ==
                   "async function " \o name \o "("
                   \o Join(ParamNames(nodes, nodes[callback].params), ", ") \o ")"
               Recorded(name, callback) ==
                   /\ pc' = "Extracting"
                   /\ \E k \in 1..Len(ex'.functions) :
                         /\ ex'.functions[k].name = name
                         /\ ex'.functions[k].type = "callback"
                         /\ HasAt(ex'.functions[k].code, 1, Header(name, callback))
               Bound(name, callback) ==
                   IF name.def /\ isTargetFunction(name.str) /\ callback # 0
                   THEN Recorded(name.str, callback)
                   ELSE ex'.functions = ex.functions
           IN  Bound(NameOf(nodes, IF Nearest(Above(cursor)) = 0 THEN 0
                                   ELSE nodes[Nearest(Above(cursor))].id),
                     ArgOf(nodes, cursor, 1))]_vars

\* C28 -- State classification arity, as stated: the state records of a run are those of
\* the declarators whose initializer is a useState call with exactly one argument and
\* whose binding target is a two-element array pattern.
StateArity ==
    pc \in {"Patching", "Reporting", "Done"}
    => Len(ex.state) = Len(SelectSeq(StateDeclarators(source.nodes),
                                     LAMBDA n : Len(source.nodes[source.nodes[n].init].arguments) = 1))

\* C28 -- as the code has it: there is one state record, in traversal order, for every
\* declarator whose initializer is a useState call, with any number of arguments, and
\* whose binding target is a two-element array pattern, and no other; its names are
\* those of the two elements and its initial value is taken from the first argument,
\* null when the call has none.
StateClassification ==
    pc \in {"Patching", "Reporting", "Done"}
    => LET nodes == source.nodes
           Matches(record, n) ==
               /\ record.getter = NameOf(nodes, nodes[nodes[n].id].elements[1])
               /\ record.setter = NameOf(nodes, nodes[nodes[n].id].elements[2])
               /\ record.initialValue = extractInitialValue(nodes, ArgOf(nodes, nodes[n].init, 1))
           OneEach(declarators) ==
               /\ Len(ex.state) = Len(declarators)
               /\ \A k \in 1..Len(declarators) : Matches(ex.state[k], declarators[k])
       IN  OneEach(StateDeclarators(nodes))

NoArgumentRecorded ==
    /\ pc = "Done"
    /\ Len(ex.state) = 1
    /\ ex.state[1].initialValue = "null"
    /\ Len(StateDeclarators(source.nodes)) = 1
    /\ source.nodes[source.nodes[StateDeclarators(source.nodes)[1]].init].arguments = << >>

\* C29 -- The watcher survives a failed sync: while the watcher is starting or watching,
\* no sync has ended the process with exit code 1.
WatcherSurvives ==
    watcher.phase \in {"starting", "initial", "watching"} => pc # "Failed" /\ exitCode # 1

\* C30 -- Counter accounting: the processing of one function record or one state record
\* adds 1 to exactly one of updateCount and skipCount, and appends one warning exactly
\* when it adds to skipCount; skipCount is the number of warnings in every state, and
\* when the loops of a new updater have ended updateCount + skipCount is the number of
\* function records plus the number of state records.
CounterAccounting ==
    /\ [](u.skipCount = Len(u.warnings))
    /\ [](pc \in {"Reporting", "Done"}
            => u.updateCount + u.skipCount = Len(ex.functions) + Len(ex.state))
    /\ [][pc = "Patching" /\ (fnIdx' # fnIdx \/ stIdx' # stIdx)
            => \/ /\ u'.updateCount = u.updateCount + 1
                  /\ u'.skipCount = u.skipCount
                  /\ u'.warnings = u.warnings
               \/ /\ u'.updateCount = u.updateCount
                  /\ u'.skipCount = u.skipCount + 1
                  /\ Len(u'.warnings) = Len(u.warnings) + 1
                  /\ SubSeq(u'.warnings, 1, Len(u.warnings)) = u.warnings
                  /\ u'.html = u.html]_vars

CountsAddUp ==
    /\ pc = "Reporting"
    /\ Len(ex.functions) + Len(ex.state) = 4
    /\ u.updateCount = 3
    /\ u.skipCount = 1
    /\ Len(u.warnings) = 1

====
